---------------------------- MODULE Spec2Model ----------------------------
(***************************************************************************)
(* A model of testrep.py, the lab report analyzer: the text acquirer       *)
(* (extract_text_from_file), the value normalizer (normalize_value), the   *)
(* analyzer (analyze_text_for_lab_values) and the summary generator        *)
(* (summarize_results).                                                    *)
(*                                                                         *)
(* A Python str is a sequence of one-character strings, so that lower(),   *)
(* strip(), replace(), the regular expressions and the f-string rendering  *)
(* of numbers are computed character by character.  A Python number is a   *)
(* decimal m * 10^(-e); "int" tells an int from a float, which str()       *)
(* renders differently.                                                    *)
(***************************************************************************)
EXTENDS Integers, Sequences, FiniteSets, TLC

(***************************************************************************)
(* Bounds of the model.                                                    *)
(***************************************************************************)
\* fragments concatenated into an analyzed text
MaxFrags == 3
\* fragments concatenated into a normalize_value argument
MaxTokens == 3
\* rows of a data frame handed to summarize_results
MaxRows == 2
\* pages of a PDF
MaxPages == 2
\* rows of a table camelot finds in a PDF
MaxTableRows == 2
\* tables camelot finds in a PDF
MaxTables == 1
\* bytes of an uploaded file
StreamLen == 2

(***************************************************************************)
(* str helpers                                                             *)
(***************************************************************************)
Digits == {"0", "1", "2", "3", "4", "5", "6", "7", "8", "9"}

\* str.isspace() characters: what strip() removes and \s matches
Whitespace == {" ", "\n", "\t", "\r"}

UpperOf ==
  [c \in {"a","b","c","d","e","f","g","h","i","j","k","l","m","n","o","p",
          "q","r","s","t","u","v","w","x","y","z"} |->
     CASE c = "a" -> "A" [] c = "b" -> "B" [] c = "c" -> "C" [] c = "d" -> "D"
       [] c = "e" -> "E" [] c = "f" -> "F" [] c = "g" -> "G" [] c = "h" -> "H"
       [] c = "i" -> "I" [] c = "j" -> "J" [] c = "k" -> "K" [] c = "l" -> "L"
       [] c = "m" -> "M" [] c = "n" -> "N" [] c = "o" -> "O" [] c = "p" -> "P"
       [] c = "q" -> "Q" [] c = "r" -> "R" [] c = "s" -> "S" [] c = "t" -> "T"
       [] c = "u" -> "U" [] c = "v" -> "V" [] c = "w" -> "W" [] c = "x" -> "X"
       [] c = "y" -> "Y" [] c = "z" -> "Z"]

LowerLetters == DOMAIN UpperOf

UpperLetters == {UpperOf[c] : c \in LowerLetters}

UpperChar(c) == IF c \in LowerLetters THEN UpperOf[c] ELSE c

LowerChar(c) ==
  IF c \in UpperLetters THEN CHOOSE l \in LowerLetters : UpperOf[l] = c ELSE c

\* str.upper()
Upper(s) == [i \in 1..Len(s) |-> UpperChar(s[i])]

\* str.lower()
Lower(s) == [i \in 1..Len(s) |-> LowerChar(s[i])]

RECURSIVE LStrip(_)
LStrip(s) ==
  IF s # <<>> /\ Head(s) \in Whitespace THEN LStrip(Tail(s)) ELSE s

RECURSIVE RStrip(_)
RStrip(s) ==
  IF s # <<>> /\ s[Len(s)] \in Whitespace
    THEN RStrip(SubSeq(s, 1, Len(s) - 1)) ELSE s

\* str.strip()
Strip(s) == RStrip(LStrip(s))

\* str.replace(c, "")
RemoveChar(s, c) == SelectSeq(s, LAMBDA x : x # c)

\* str.startswith(p), at offset i (1-based)
StartsWithAt(s, p, i) ==
  /\ i + Len(p) - 1 <= Len(s)
  /\ \A j \in 1..Len(p) : s[i + j - 1] = p[j]

StartsWith(s, p) == StartsWithAt(s, p, 1)

\* str.endswith(p)
EndsWith(s, p) == Len(p) <= Len(s) /\ StartsWithAt(s, p, Len(s) - Len(p) + 1)

\* p in s
Contains(s, p) == \E i \in 1..(Len(s) + 1) : StartsWithAt(s, p, i)

\* sep.join(parts)
RECURSIVE Join(_, _)
Join(sep, parts) ==
  IF parts = <<>> THEN <<>>
  ELSE IF Len(parts) = 1 THEN parts[1]
  ELSE parts[1] \o sep \o Join(sep, Tail(parts))

(***************************************************************************)
(* The regular expressions of module re that the program uses: a pattern   *)
(* is a sequence of items, each a character class with a repetition        *)
(* (greedy or lazy) or a group parenthesis.  Matching backtracks in        *)
(* Python's order: a greedy item tries its longest run first, a lazy item  *)
(* its shortest, and the first complete match wins.                        *)
(***************************************************************************)
NoMatch == [ok |-> FALSE]

\* one literal character
Lit(c) ==
  [t |-> "cls", neg |-> FALSE, set |-> {c}, min |-> 1, bounded |-> TRUE, greedy |-> TRUE]

\* re.escape(s): every character of s, literally
Escape(s) == [i \in 1..Len(s) |-> Lit(s[i])]

\* [set]* and [^set]*, greedy
Star(neg, set) ==
  [t |-> "cls", neg |-> neg, set |-> set, min |-> 0, bounded |-> FALSE, greedy |-> TRUE]

\* [set]*? and [^set]*?, lazy
LazyStar(neg, set) ==
  [t |-> "cls", neg |-> neg, set |-> set, min |-> 0, bounded |-> FALSE, greedy |-> FALSE]

\* [set]+, greedy
Plus(neg, set) ==
  [t |-> "cls", neg |-> neg, set |-> set, min |-> 1, bounded |-> FALSE, greedy |-> TRUE]

\* [set]?, greedy
Opt(neg, set) ==
  [t |-> "cls", neg |-> neg, set |-> set, min |-> 0, bounded |-> TRUE, greedy |-> TRUE]

GroupOpen == [t |-> "open"]

GroupClose == [t |-> "close"]

ClassHas(it, c) == IF it.neg THEN c \notin it.set ELSE c \in it.set

\* how many characters from pos on the item can take, at most
RECURSIVE Run(_, _, _, _)
Run(it, s, pos, n) ==
  IF (it.bounded /\ n >= 1) \/ pos + n > Len(s) THEN n
  ELSE IF ClassHas(it, s[pos + n]) THEN Run(it, s, pos, n + 1)
  ELSE n

RECURSIVE MatchFrom(_, _, _, _, _)
RECURSIVE TryCount(_, _, _, _, _, _, _)
\* the pattern from item k on, against s from pos on
MatchFrom(pat, s, k, pos, caps) ==
  IF k > Len(pat) THEN [ok |-> TRUE, end |-> pos, caps |-> caps]
  ELSE LET it == pat[k] IN
    IF it.t = "open" THEN MatchFrom(pat, s, k + 1, pos, Append(caps, <<pos, pos>>))
    ELSE IF it.t = "close"
      THEN MatchFrom(pat, s, k + 1, pos, [caps EXCEPT ![Len(caps)][2] = pos])
    ELSE LET run == Run(it, s, pos, 0) IN
      IF run < it.min THEN NoMatch
      ELSE TryCount(pat, s, k, pos, caps, IF it.greedy THEN run ELSE it.min, run)

\* item k taking n characters, then the next count in the item's order
TryCount(pat, s, k, pos, caps, n, run) ==
  LET it == pat[k]
      r == MatchFrom(pat, s, k + 1, pos + n, caps)
  IN IF r.ok THEN r
     ELSE IF it.greedy
       THEN (IF n > it.min THEN TryCount(pat, s, k, pos, caps, n - 1, run) ELSE NoMatch)
       ELSE (IF n < run THEN TryCount(pat, s, k, pos, caps, n + 1, run) ELSE NoMatch)

\* re.match(pat, s): at the start of s only
ReMatch(pat, s) ==
  LET r == MatchFrom(pat, s, 1, 1, <<>>)
  IN IF r.ok THEN [ok |-> TRUE, start |-> 1, end |-> r.end, caps |-> r.caps]
     ELSE NoMatch

RECURSIVE SearchBack(_, _, _)
SearchBack(pat, s, start) ==
  IF start < 1 THEN NoMatch
  ELSE LET r == MatchFrom(pat, s, 1, start, <<>>)
       IN IF r.ok THEN [ok |-> TRUE, start |-> start, end |-> r.end, caps |-> r.caps]
          ELSE SearchBack(pat, s, start - 1)

\* fault: the rightmost match taken for the leftmost
ReSearchLast(pat, s) == SearchBack(pat, s, Len(s) + 1)

RECURSIVE SearchFrom(_, _, _)
SearchFrom(pat, s, start) ==
  IF start > Len(s) + 1 THEN NoMatch
  ELSE LET r == MatchFrom(pat, s, 1, start, <<>>)
       IN IF r.ok THEN [ok |-> TRUE, start |-> start, end |-> r.end, caps |-> r.caps]
          ELSE SearchFrom(pat, s, start + 1)

\* re.search(pat, s): the leftmost match
ReSearch(pat, s) == SearchFrom(pat, s, 1)

\* match.group(g)
Group(s, m, g) == SubSeq(s, m.caps[g][1], m.caps[g][2] - 1)

(***************************************************************************)
(* Numbers: float(token), comparison, multiplication and str().  Within    *)
(* the digits the model draws, a decimal token and the double float()      *)
(* makes of it compare alike, and str() of the double is the token with    *)
(* its needless zeros dropped and ".0" added to a whole number.            *)
(***************************************************************************)
DigitVal(c) ==
  CASE c = "0" -> 0 [] c = "1" -> 1 [] c = "2" -> 2 [] c = "3" -> 3 [] c = "4" -> 4
    [] c = "5" -> 5 [] c = "6" -> 6 [] c = "7" -> 7 [] c = "8" -> 8 [] c = "9" -> 9

DigitChar(d) == CHOOSE c \in Digits : DigitVal(c) = d

RECURSIVE Pow10(_)
Pow10(n) == IF n = 0 THEN 1 ELSE 10 * Pow10(n - 1)

\* the integer a run of digits spells ("" spells 0)
RECURSIVE IntOf(_)
IntOf(ds) ==
  IF ds = <<>> THEN 0 ELSE 10 * IntOf(SubSeq(ds, 1, Len(ds) - 1)) + DigitVal(ds[Len(ds)])

\* a float without needless trailing decimals
RECURSIVE Normal(_, _)
Normal(m, e) ==
  IF e > 0 /\ m % 10 = 0 THEN Normal(m \div 10, e - 1)
  ELSE [m |-> m, e |-> e, int |-> FALSE]

\* float(tok) for a token of digits and dots: ValueError unless it has a digit
\* and at most one dot
Float(tok) ==
  LET dots == {i \in 1..Len(tok) : tok[i] = "."}
      digs == SelectSeq(tok, LAMBDA c : c \in Digits)
  IN IF Cardinality(dots) > 1 \/ digs = <<>> THEN [ok |-> FALSE]
     ELSE LET e == IF dots = {} THEN 0 ELSE Len(tok) - (CHOOSE i \in dots : TRUE)
          IN [ok |-> TRUE, val |-> Normal(IntOf(digs), e)]

\* a < b
Less(a, b) == a.m * Pow10(b.e) < b.m * Pow10(a.e)

\* num * 100000
Times100000(a) ==
  IF a.e >= 5 THEN Normal(a.m, a.e - 5) ELSE Normal(a.m * Pow10(5 - a.e), 0)

\* str(n) of a natural number
RECURSIVE NatStr(_)
NatStr(n) ==
  IF n < 10 THEN <<DigitChar(n)>> ELSE NatStr(n \div 10) \o <<DigitChar(n % 10)>>

\* n as exactly w digits
RECURSIVE Padded(_, _)
Padded(n, w) ==
  IF w = 0 THEN <<>> ELSE Padded(n \div 10, w - 1) \o <<DigitChar(n % 10)>>

\* str(x), as an f-string renders {x}: "70" for the int 70, "70.0" for the float
PyStr(x) ==
  IF x.int THEN NatStr(x.m)
  ELSE NatStr(x.m \div Pow10(x.e)) \o <<".">>
         \o (IF x.e = 0 THEN <<"0">> ELSE Padded(x.m % Pow10(x.e), x.e))

(***************************************************************************)
(* LAB_RULES, in the dict's insertion order.                               *)
(***************************************************************************)
LAB_RULES ==
  <<
     [test |-> <<"g","l","u","c","o","s","e">>,
      low |-> [m |-> 70, e |-> 0, int |-> TRUE], high |-> [m |-> 99, e |-> 0, int |-> TRUE],
      unit |-> <<"m","g","/","d","L">>,
      meaning |-> "Diabetes risk if high"],
     [test |-> <<"f","a","s","t","i","n","g"," ","b","l","o","o","d"," ","s","u","g","a","r">>,
      low |-> [m |-> 74, e |-> 0, int |-> TRUE], high |-> [m |-> 106, e |-> 0, int |-> TRUE],
      unit |-> <<"m","g","/","d","L">>,
      meaning |-> "Diabetes risk if high"],
     [test |-> <<"p","o","s","t","p","r","a","n","d","i","a","l"," ","g","l","u","c","o","s","e">>,
      low |-> [m |-> 70, e |-> 0, int |-> TRUE], high |-> [m |-> 140, e |-> 0, int |-> TRUE],
      unit |-> <<"m","g","/","d","L">>,
      meaning |-> "Elevated after meals indicates diabetes"],
     [test |-> <<"h","b","a","1","c">>,
      low |-> [m |-> 4, e |-> 0, int |-> TRUE], high |-> [m |-> 64, e |-> 1, int |-> FALSE],
      unit |-> <<"%">>,
      meaning |-> "Diabetes marker; >6.5% indicates diabetes"],
     [test |-> <<"h","e","m","o","g","l","o","b","i","n">>,
      low |-> [m |-> 12, e |-> 0, int |-> TRUE], high |-> [m |-> 165, e |-> 1, int |-> FALSE],
      unit |-> <<"g","/","d","L">>,
      meaning |-> "Low may indicate anemia"],
     [test |-> <<"w","b","c">>,
      low |-> [m |-> 4000, e |-> 0, int |-> TRUE], high |-> [m |-> 11000, e |-> 0, int |-> TRUE],
      unit |-> <<"/","µ","L">>,
      meaning |-> "Abnormal count may indicate infection"],
     [test |-> <<"p","l","a","t","e","l","e","t","s">>,
      low |-> [m |-> 150000, e |-> 0, int |-> TRUE], high |-> [m |-> 450000, e |-> 0, int |-> TRUE],
      unit |-> <<"/","µ","L">>,
      meaning |-> "Low = bleeding risk; High = clotting risk"],
     [test |-> <<"r","b","c">>,
      low |-> [m |-> 42, e |-> 1, int |-> FALSE], high |-> [m |-> 59, e |-> 1, int |-> FALSE],
      unit |-> <<"M","/","µ","L">>,
      meaning |-> "Low = anemia; High = dehydration/polycythemia"],
     [test |-> <<"h","e","m","a","t","o","c","r","i","t">>,
      low |-> [m |-> 36, e |-> 0, int |-> TRUE], high |-> [m |-> 50, e |-> 0, int |-> TRUE],
      unit |-> <<"%">>,
      meaning |-> "Low = anemia; High = dehydration"],
     [test |-> <<"m","c","v">>,
      low |-> [m |-> 80, e |-> 0, int |-> TRUE], high |-> [m |-> 100, e |-> 0, int |-> TRUE],
      unit |-> <<"f","L">>,
      meaning |-> "Red cell size; low = microcytic anemia"],
     [test |-> <<"m","c","h">>,
      low |-> [m |-> 27, e |-> 0, int |-> TRUE], high |-> [m |-> 33, e |-> 0, int |-> TRUE],
      unit |-> <<"p","g">>,
      meaning |-> "Hemoglobin per RBC; low = anemia"],
     [test |-> <<"m","c","h","c">>,
      low |-> [m |-> 32, e |-> 0, int |-> TRUE], high |-> [m |-> 36, e |-> 0, int |-> TRUE],
      unit |-> <<"g","/","d","L">>,
      meaning |-> "RBC concentration; low = iron deficiency"],
     [test |-> <<"e","s","r">>,
      low |-> [m |-> 0, e |-> 0, int |-> TRUE], high |-> [m |-> 20, e |-> 0, int |-> TRUE],
      unit |-> <<"m","m","/","h","r">>,
      meaning |-> "High = inflammation/infection"],
     [test |-> <<"c","h","o","l","e","s","t","e","r","o","l">>,
      low |-> [m |-> 0, e |-> 0, int |-> TRUE], high |-> [m |-> 200, e |-> 0, int |-> TRUE],
      unit |-> <<"m","g","/","d","L">>,
      meaning |-> "High indicates cardiovascular risk"],
     [test |-> <<"l","d","l">>,
      low |-> [m |-> 0, e |-> 0, int |-> TRUE], high |-> [m |-> 100, e |-> 0, int |-> TRUE],
      unit |-> <<"m","g","/","d","L">>,
      meaning |-> "High LDL = bad cholesterol"],
     [test |-> <<"h","d","l">>,
      low |-> [m |-> 40, e |-> 0, int |-> TRUE], high |-> [m |-> 60, e |-> 0, int |-> TRUE],
      unit |-> <<"m","g","/","d","L">>,
      meaning |-> "Low HDL increases heart risk"],
     [test |-> <<"t","r","i","g","l","y","c","e","r","i","d","e">>,
      low |-> [m |-> 0, e |-> 0, int |-> TRUE], high |-> [m |-> 150, e |-> 0, int |-> TRUE],
      unit |-> <<"m","g","/","d","L">>,
      meaning |-> "High indicates metabolic risk"],
     [test |-> <<"c","r","e","a","t","i","n","i","n","e">>,
      low |-> [m |-> 6, e |-> 1, int |-> FALSE], high |-> [m |-> 12, e |-> 1, int |-> FALSE],
      unit |-> <<"m","g","/","d","L">>,
      meaning |-> "High = kidney dysfunction"],
     [test |-> <<"u","r","e","a">>,
      low |-> [m |-> 19, e |-> 0, int |-> TRUE], high |-> [m |-> 43, e |-> 0, int |-> TRUE],
      unit |-> <<"m","g","/","d","L">>,
      meaning |-> "Kidney function marker"],
     [test |-> <<"u","r","i","c"," ","a","c","i","d">>,
      low |-> [m |-> 34, e |-> 1, int |-> FALSE], high |-> [m |-> 7, e |-> 0, int |-> FALSE],
      unit |-> <<"m","g","/","d","L">>,
      meaning |-> "High = gout or kidney issue"],
     [test |-> <<"b","u","n">>,
      low |-> [m |-> 7, e |-> 0, int |-> TRUE], high |-> [m |-> 20, e |-> 0, int |-> TRUE],
      unit |-> <<"m","g","/","d","L">>,
      meaning |-> "Kidney function marker"],
     [test |-> <<"s","g","p","t">>,
      low |-> [m |-> 0, e |-> 0, int |-> TRUE], high |-> [m |-> 40, e |-> 0, int |-> TRUE],
      unit |-> <<"U","/","L">>,
      meaning |-> "High = liver damage"],
     [test |-> <<"s","g","o","t">>,
      low |-> [m |-> 0, e |-> 0, int |-> TRUE], high |-> [m |-> 40, e |-> 0, int |-> TRUE],
      unit |-> <<"U","/","L">>,
      meaning |-> "High = liver/muscle damage"],
     [test |-> <<"b","i","l","i","r","u","b","i","n">>,
      low |-> [m |-> 3, e |-> 1, int |-> FALSE], high |-> [m |-> 12, e |-> 1, int |-> FALSE],
      unit |-> <<"m","g","/","d","L">>,
      meaning |-> "High = jaundice/liver issue"],
     [test |-> <<"a","l","k","a","l","i","n","e"," ","p","h","o","s","p","h","a","t","a","s","e">>,
      low |-> [m |-> 44, e |-> 0, int |-> TRUE], high |-> [m |-> 147, e |-> 0, int |-> TRUE],
      unit |-> <<"U","/","L">>,
      meaning |-> "High = liver/bone disease"],
     [test |-> <<"t","o","t","a","l"," ","p","r","o","t","e","i","n">>,
      low |-> [m |-> 6, e |-> 0, int |-> FALSE], high |-> [m |-> 83, e |-> 1, int |-> FALSE],
      unit |-> <<"g","/","d","L">>,
      meaning |-> "Low = malnutrition/liver issue"],
     [test |-> <<"a","l","b","u","m","i","n">>,
      low |-> [m |-> 35, e |-> 1, int |-> FALSE], high |-> [m |-> 55, e |-> 1, int |-> FALSE],
      unit |-> <<"g","/","d","L">>,
      meaning |-> "Low = malnutrition/liver/kidney disease"],
     [test |-> <<"t","s","h">>,
      low |-> [m |-> 4, e |-> 1, int |-> FALSE], high |-> [m |-> 4, e |-> 0, int |-> FALSE],
      unit |-> <<"µ","I","U","/","m","L">>,
      meaning |-> "Thyroid disorder if abnormal"],
     [test |-> <<"t","3">>,
      low |-> [m |-> 80, e |-> 0, int |-> TRUE], high |-> [m |-> 200, e |-> 0, int |-> TRUE],
      unit |-> <<"n","g","/","d","L">>,
      meaning |-> "Thyroid hormone"],
     [test |-> <<"t","4">>,
      low |-> [m |-> 5, e |-> 0, int |-> FALSE], high |-> [m |-> 12, e |-> 0, int |-> FALSE],
      unit |-> <<"µ","g","/","d","L">>,
      meaning |-> "Thyroid hormone"],
     [test |-> <<"v","i","t","a","m","i","n"," ","d">>,
      low |-> [m |-> 30, e |-> 0, int |-> TRUE], high |-> [m |-> 100, e |-> 0, int |-> TRUE],
      unit |-> <<"n","g","/","m","L">>,
      meaning |-> "Low = Vitamin D deficiency"],
     [test |-> <<"v","i","t","a","m","i","n"," ","b","1","2">>,
      low |-> [m |-> 187, e |-> 0, int |-> TRUE], high |-> [m |-> 833, e |-> 0, int |-> TRUE],
      unit |-> <<"p","g","/","m","L">>,
      meaning |-> "Low = Vitamin B12 deficiency"],
     [test |-> <<"c","a","l","c","i","u","m">>,
      low |-> [m |-> 85, e |-> 1, int |-> FALSE], high |-> [m |-> 105, e |-> 1, int |-> FALSE],
      unit |-> <<"m","g","/","d","L">>,
      meaning |-> "Abnormal = bone/metabolic issue"],
     [test |-> <<"s","o","d","i","u","m">>,
      low |-> [m |-> 135, e |-> 0, int |-> TRUE], high |-> [m |-> 145, e |-> 0, int |-> TRUE],
      unit |-> <<"m","m","o","l","/","L">>,
      meaning |-> "Electrolyte imbalance if abnormal"],
     [test |-> <<"p","o","t","a","s","s","i","u","m">>,
      low |-> [m |-> 35, e |-> 1, int |-> FALSE], high |-> [m |-> 51, e |-> 1, int |-> FALSE],
      unit |-> <<"m","m","o","l","/","L">>,
      meaning |-> "Abnormal = heart/muscle issues"],
     [test |-> <<"p","s","a">>,
      low |-> [m |-> 0, e |-> 0, int |-> TRUE], high |-> [m |-> 4, e |-> 0, int |-> TRUE],
      unit |-> <<"n","g","/","m","L">>,
      meaning |-> "Prostate cancer marker"],
     [test |-> <<"c","a"," ","1","5","-","3">>,
      low |-> [m |-> 0, e |-> 0, int |-> TRUE], high |-> [m |-> 30, e |-> 0, int |-> TRUE],
      unit |-> <<"U","/","m","L">>,
      meaning |-> "Breast cancer progression marker"],
     [test |-> <<"c","a","-","1","2","5">>,
      low |-> [m |-> 0, e |-> 0, int |-> TRUE], high |-> [m |-> 35, e |-> 0, int |-> TRUE],
      unit |-> <<"U","/","m","L">>,
      meaning |-> "Ovarian cancer marker"],
     [test |-> <<"c","e","a">>,
      low |-> [m |-> 0, e |-> 0, int |-> TRUE], high |-> [m |-> 5, e |-> 0, int |-> TRUE],
      unit |-> <<"n","g","/","m","L">>,
      meaning |-> "Colon cancer marker"],
     [test |-> <<"a","f","p">>,
      low |-> [m |-> 0, e |-> 0, int |-> TRUE], high |-> [m |-> 10, e |-> 0, int |-> TRUE],
      unit |-> <<"n","g","/","m","L">>,
      meaning |-> "Liver cancer marker"],
     [test |-> <<"i","g","e">>,
      low |-> [m |-> 0, e |-> 0, int |-> TRUE], high |-> [m |-> 87, e |-> 0, int |-> TRUE],
      unit |-> <<"I","U","/","m","L">>,
      meaning |-> "High = allergy or asthma risk"]
  >>

(***************************************************************************)
(* normalize_value                                                         *)
(***************************************************************************)
\* \d+\.?\d*
NumberItems == <<Plus(FALSE, Digits), Opt(FALSE, {"."}), Star(FALSE, Digits)>>

\* [\d\.]+
DigitsAndDots == <<Plus(FALSE, Digits \cup {"."})>>

\* [a-zA-Z%/µ]
UnitChars == LowerLetters \cup UpperLetters \cup {"%", "/", "µ"}

\* (\d+\.?\d*)\s*([a-zA-Z%/µ]+)?  The optional second group is never read;
\* it takes what [a-zA-Z%/µ]* takes.
NumUnitPattern ==
  <<GroupOpen>> \o NumberItems \o <<GroupClose>>
     \o <<Star(FALSE, Whitespace), Star(FALSE, UnitChars)>>

\* float(re.findall(r"[\d\.]+", value)[0]) under "except:": None on the
\* IndexError of an empty list and on the ValueError of float()
FirstNumber(value) ==
  LET m == ReSearch(DigitsAndDots, value)
  IN IF ~m.ok THEN [ok |-> FALSE]
     ELSE Float(SubSeq(value, m.start, m.end - 1))

Lakh == <<"L", "a", "k", "h">>

Lac == <<"L", "a", "c">>

None == [none |-> TRUE]

Some(x) == [none |-> FALSE, val |-> x]

\* the Lakh branch
NormalizeLakh(value) ==
  LET f == FirstNumber(value)
  IN IF f.ok THEN Some(Times100000(f.val)) ELSE None

\* the re.match branch: float(group(1)) under "except ValueError"
NormalizeNumUnit(value, m) ==
  LET f == Float(Group(value, m, 1))
  IN IF f.ok THEN Some(f.val) ELSE None

\* the last branch
NormalizeDefault(value) ==
  LET f == FirstNumber(value)
  IN IF f.ok THEN Some(f.val) ELSE None

normalize_value(raw) ==
  LET stripped == Strip(RemoveChar(raw, ","))
      value == IF StartsWith(stripped, <<"<">>) \/ StartsWith(stripped, <<">">>)
                 THEN Tail(stripped) ELSE stripped
      m == ReMatch(NumUnitPattern, value)
  IN IF Contains(value, Lakh) \/ Contains(value, Lac) THEN NormalizeLakh(value)
     ELSE IF m.ok THEN NormalizeNumUnit(value, m)
     ELSE NormalizeDefault(value)

(***************************************************************************)
(* analyze_text_for_lab_values                                             *)
(***************************************************************************)
\* rf"{re.escape(test)}[^0-9]*(\d+\.?\d*)"
ValuePattern(test) ==
  Escape(test) \o <<Star(TRUE, Digits), GroupOpen>> \o NumberItems \o <<GroupClose>>

\* . matches everything but a newline
AnyChar(lazy) == IF lazy THEN LazyStar(TRUE, {"\n"}) ELSE Star(TRUE, {"\n"})

\* rf"{re.escape(test)}.*?\d+\.?\d*.*?(\d+\.?\d*)\s*-\s*(\d+\.?\d*)"
RangePattern(test) ==
  Escape(test) \o <<AnyChar(TRUE)>> \o NumberItems \o <<AnyChar(TRUE)>>
    \o <<GroupOpen>> \o NumberItems \o <<GroupClose>>
    \o <<Star(FALSE, Whitespace), Lit("-"), Star(FALSE, Whitespace)>>
    \o <<GroupOpen>> \o NumberItems \o <<GroupClose>>

\* fault: a range written in the text ignored
RuleBounds(rule, text_low) ==
  [low |-> rule.low, high |-> rule.high,
   range_str |-> PyStr(rule.low) \o <<" ", "-", " ">> \o PyStr(rule.high)
                   \o <<" ">> \o rule.unit]

\* the bounds a value is classified against and their rendering
Bounds(rule, text_low) ==
  LET ref_range_match == ReSearch(RangePattern(rule.test), text_low)
  IN IF ref_range_match.ok
       THEN LET low_ref == Float(Group(text_low, ref_range_match, 1)).val
                high_ref == Float(Group(text_low, ref_range_match, 2)).val
            IN [low |-> low_ref, high |-> high_ref,
                range_str |-> PyStr(low_ref) \o <<" ", "-", " ">> \o PyStr(high_ref)
                                \o <<" ">> \o rule.unit]
       ELSE [low |-> rule.low, high |-> rule.high,
             range_str |-> PyStr(rule.low) \o <<" ", "-", " ">> \o PyStr(rule.high)
                             \o <<" ">> \o rule.unit]

\* f"<word> ({value} {unit})"
StatusText(word, value, unit) ==
  word \o <<" ", "(">> \o PyStr(value) \o <<" ">> \o unit \o <<")">>

\* fault: a value on the lower bound taken for a low one
StatusLowInclusive(value, current_low, current_high, unit) ==
  IF ~Less(current_low, value) THEN StatusText(<<"L", "O", "W">>, value, unit)
  ELSE IF Less(current_high, value) THEN StatusText(<<"H", "I", "G", "H">>, value, unit)
  ELSE StatusText(<<"N", "o", "r", "m", "a", "l">>, value, unit)

\* lines 212-219
Status(value, current_low, current_high, unit) ==
  IF Less(value, current_low) THEN StatusText(<<"L", "O", "W">>, value, unit)
  ELSE IF Less(current_high, value) THEN StatusText(<<"H", "I", "G", "H">>, value, unit)
  ELSE StatusText(<<"N", "o", "r", "m", "a", "l">>, value, unit)

\* the record results.append() adds for a rule whose pattern matched
MakeRecord(rule, value, b) ==
  [Test |-> Upper(rule.test),
   Value |-> value,
   Range |-> b.range_str,
   Status |-> Status(value, b.low, b.high, rule.unit),
   Meaning |-> rule.meaning]

\* one pass of the loop body: the rows rule number k adds
RuleRows(k, text_low) ==
  LET rule == LAB_RULES[k]
      match == ReSearch(ValuePattern(rule.test), text_low)
  IN IF match.ok
       THEN <<MakeRecord(rule, Float(Group(text_low, match, 1)).val,
                         Bounds(rule, text_low))>>
       ELSE <<>>

\* fault: the loop left at the first rule that has no match
RECURSIVE AnalyzeUntilMiss(_, _)
AnalyzeUntilMiss(k, text_low) ==
  IF k > Len(LAB_RULES) \/ RuleRows(k, text_low) = <<>> THEN <<>>
  ELSE RuleRows(k, text_low) \o AnalyzeUntilMiss(k + 1, text_low)

\* the loop over LAB_RULES.items(), from rule number k on
RECURSIVE AnalyzeFrom(_, _)
AnalyzeFrom(k, text_low) ==
  IF k > Len(LAB_RULES) THEN <<>>
  ELSE RuleRows(k, text_low) \o AnalyzeFrom(k + 1, text_low)

analyze_text_for_lab_values(text) == AnalyzeFrom(1, Lower(text))

(***************************************************************************)
(* summarize_results.  A message the program only prints is one element of *)
(* the str it belongs to; so is a rule's meaning.  The messages are        *)
(* written without the pictograph each starts with.                        *)
(***************************************************************************)
NoTestsMessage == <<"No recognized tests found in this report.">>

NoStatusMessage == <<"Analysis did not produce standard status column.">>

AllNormalMessage == <<"All analyzed values appear within expected ranges.">>

NoMajorMessage == <<"No major abnormalities detected among analyzed tests.">>

AbnormalHeader == <<"Abnormal findings detected:", "\n", "-", " ">>

NoteSeparator == <<"\n", "-", " ">>

\* fault: the rows that are low left out
IsHigh(row) == Contains(Lower(row.Status), <<"h", "i", "g", "h">>)

\* df["Status"].str.contains("HIGH|LOW", case=False, na=False), for one row
IsAbnormal(row) ==
  \/ Contains(Lower(row.Status), <<"h", "i", "g", "h">>)
  \/ Contains(Lower(row.Status), <<"l", "o", "w">>)

\* f"High {test_name} → {meaning_detail}"
Note(level, row) == level \o <<" ">> \o row.Test \o <<" ", "→", " ">> \o <<row.Meaning>>

\* one pass of the loop over the abnormal rows: the notes the row adds
RowNotes(row) ==
  IF Contains(row.Status, <<"H", "I", "G", "H">>) THEN <<Note(<<"H", "i", "g", "h">>, row)>>
  ELSE IF Contains(row.Status, <<"L", "O", "W">>) THEN <<Note(<<"L", "o", "w">>, row)>>
  ELSE <<>>

RECURSIVE Notes(_)
Notes(rows) == IF rows = <<>> THEN <<>> ELSE RowNotes(Head(rows)) \o Notes(Tail(rows))

\* df is None, or a data frame: its rows, each with the columns it has
summarize_results(df) ==
  IF df = <<>> THEN NoTestsMessage
  ELSE IF \E i \in 1..Len(df) : "Status" \notin DOMAIN df[i] THEN NoStatusMessage
  ELSE LET abnormal == SelectSeq(df, IsAbnormal)
           notes == Notes(abnormal)
       IN IF abnormal = <<>> THEN AllNormalMessage
          ELSE IF notes # <<>> THEN AbnormalHeader \o Join(NoteSeparator, notes)
          ELSE NoMajorMessage

(***************************************************************************)
(* extract_text_from_file.  What pdfplumber, camelot, PIL and pytesseract  *)
(* do with a file is the environment's choice: each may raise, and each    *)
(* leaves the stream wherever its reads ended.                             *)
(***************************************************************************)
DotPdf == <<".", "p", "d", "f">>

ImageSuffixes == {<<".", "p", "n", "g">>, <<".", "j", "p", "g">>, <<".", "j", "p", "e", "g">>}

IsPdf(filename) == EndsWith(Lower(filename), DotPdf)

IsImage(filename) == \E suffix \in ImageSuffixes : EndsWith(Lower(filename), suffix)

\* not text.strip()
Blank(s) == Strip(s) = <<>>

\* fault: the OCR fallback of a PDF left without its except clause
CaughtButOcr(strategy) == strategy # "ocr"

\* every "except Exception" of the function catches what its try block raises
Caught(strategy) == TRUE

\* the loop over pdf.pages: a page is what extract_text() returns for it, or
\* the exception it raises; the text read before an exception is kept
RECURSIVE PagesText(_)
PagesText(pages) ==
  IF pages = <<>> THEN [text |-> <<>>, failed |-> FALSE]
  ELSE IF Head(pages).raises THEN [text |-> <<>>, failed |-> TRUE]
  ELSE LET rest == PagesText(Tail(pages))
           page_text == Head(pages).text
       IN [text |-> (IF page_text # <<>> THEN page_text \o <<"\n">> ELSE <<>>) \o rest.text,
           failed |-> rest.failed]

\* the first try block: pdfplumber.open() may itself raise
NativeText(open_raises, pages) ==
  IF open_raises THEN [text |-> <<>>, failed |-> TRUE] ELSE PagesText(pages)

\* the float NaN in a cell: no str
NaN == <<"NaN">>

\* row.dropna().astype(str).tolist()
RowList(row) == SelectSeq(row, LAMBDA cell : cell # NaN)

\* len(row_list) >= 3
Qualifies(row) == Len(RowList(row)) >= 3

\* the loops over the tables and their rows
RECURSIVE TableRows(_)
TableRows(rows) ==
  IF rows = <<>> THEN <<>>
  ELSE (IF Qualifies(Head(rows)) THEN <<RowList(Head(rows))>> ELSE <<>>)
         \o TableRows(Tail(rows))

\* " ".join(row) of cells that are strs
RECURSIVE JoinCells(_)
JoinCells(cells) ==
  IF cells = <<>> THEN <<>>
  ELSE IF Len(cells) = 1 THEN cells[1]
  ELSE cells[1] \o <<" ">> \o JoinCells(Tail(cells))

\* "\n".join([" ".join(row) for row in all_tests_from_tables])
FlattenRows(rows) == Join(<<"\n">>, [i \in 1..Len(rows) |-> JoinCells(rows[i])])

\* if w < 1000
ResizeBelow == 1000

NeedsResize(w) == w < ResizeBelow


(***************************************************************************)
(* The state.  One call of each function is followed: its argument, the    *)
(* locals it assigns and what it returns.                                  *)
(***************************************************************************)
VARIABLES
  pc,                     \* where the call stands
  filename,               \* extract_text_from_file: the filename argument
  text,                   \* extract_text_from_file: the local text
  all_tests_from_tables,  \* extract_text_from_file: the rows kept from camelot
  streamPos,              \* the position of file_path, the io.BytesIO stream
  attempts,               \* the strategies tried so far, each with the stream
                          \* position it started from and what it produced
  result,                 \* what extract_text_from_file returned
  extracted_text,         \* analyze_text_for_lab_values: the text argument
  results_df,             \* the rows of the data frame it returned
  value,                  \* normalize_value: the argument
  normalized,             \* what normalize_value returned
  df,                     \* summarize_results: the argument
  summary                 \* what summarize_results returned

vars ==
  <<pc, filename, text, all_tests_from_tables, streamPos, attempts, result,
    extracted_text, results_df, value, normalized, df, summary>>

extractVars == <<filename, text, all_tests_from_tables, streamPos, attempts, result>>

analyzeVars == <<extracted_text, results_df>>

normalizeVars == <<value, normalized>>

summarizeVars == <<df, summary>>

\* a function that is not the one being called holds nothing
IdleExtract ==
  /\ filename = <<>> /\ text = <<>> /\ all_tests_from_tables = <<>>
  /\ streamPos = 0 /\ attempts = <<>> /\ result = <<>>

IdleAnalyze == extracted_text = <<>> /\ results_df = <<>>

IdleNormalize == value = <<>> /\ normalized = None

IdleSummarize == df = <<>> /\ summary = <<>>

\* the sequences of at most n elements of S
SeqsUpTo(S, n) == UNION {[1..k -> S] : k \in 0..n}

RECURSIVE Concat(_)
Concat(parts) == IF parts = <<>> THEN <<>> ELSE Head(parts) \o Concat(Tail(parts))

(***************************************************************************)
(* The inputs drawn.                                                       *)
(***************************************************************************)
Filenames ==
  {
    <<"r", ".", "p", "d", "f">>, <<"R", ".", "P", "D", "F">>, <<"a", ".", "p", "n", "g">>,
    <<"a", ".", "J", "P", "G">>, <<"a", ".", "j", "p", "e", "g">>, <<"r", "e", "p", "o", "r", "t", ".", "t", "x", "t">>,
    <<"p", "d", "f">>
  }

\* what page.extract_text() does for one page: raises, returns None or "",
\* returns blanks, returns text
PageResults ==
  {[raises |-> TRUE, text |-> <<>>],
   [raises |-> FALSE, text |-> <<>>],
   [raises |-> FALSE, text |-> <<" ">>],
   [raises |-> FALSE, text |-> <<"h", "d", "l", " ", "5">>]}

\* the rows of a camelot table: two cells, three cells, three cells one of
\* them NaN, four cells one of them NaN
RowChoices ==
  {<<<<"h", "d", "l">>, <<"5">>>>,
   <<<<"h", "d", "l">>, <<"5">>, <<"4", "0", "-", "6", "0">>>>,
   <<<<"h", "d", "l">>, NaN, <<"5">>>>,
   <<<<"l", "d", "l">>, NaN, <<"9">>, <<>>>>}

\* what pytesseract.image_to_string() returns
OcrTexts == {<<>>, <<" ">>, <<"l", "d", "l", " ", "7">>}

\* the widths of an uploaded image
Widths == {ResizeBelow - 1, ResizeBelow}

\* the pieces an analyzed text is put together from
Fragments ==
  {
    <<"g", "l", "u", "c", "o", "s", "e", " ">>, <<"H", "d", "l", ":", " ">>, <<"7", "0">>,
    <<"9", "9">>, <<"6", "9", ".", "9">>, <<" ", "7", "0", "-", "9", "9">>,
    <<" ", "(", "9", "9", " ", "-", " ", "7", "0", ")">>, <<"\n">>
  }

\* texts of the kinds a report holds: a name mentioned twice, names out of
\* table order, a range written high to low, a range on the next line
SampleTexts ==
  {
    <<"G", "l", "u", "c", "o", "s", "e", ":", " ", "1", "1", "0", " ", "m", "g", "/", "d", "L", " ", "(", "7", "0", "-", "9", "9", ")", "\n", "H", "e", "m", "o", "g", "l", "o", "b", "i", "n", " ", "1", "1", " ", "g", "/", "d", "L">>,
    <<"g", "l", "u", "c", "o", "s", "e", " ", "7", "0", " ", "g", "l", "u", "c", "o", "s", "e", " ", "9", "9">>,
    <<"h", "d", "l", " ", "5", " ", "g", "l", "u", "c", "o", "s", "e", " ", "7", " ", "h", "d", "l", " ", "9">>,
    <<"h", "d", "l", " ", "5", " ", "g", "l", "u", "c", "o", "s", "e">>,
    <<"g", "l", "u", "c", "o", "s", "e", " ", "8", "0", " ", "(", "9", "9", " ", "-", " ", "7", "0", ")">>,
    <<"g", "l", "u", "c", "o", "s", "e", " ", "1", "0", "0", " ", "(", "9", "9", " ", "-", " ", "7", "0", ")">>,
    <<"g", "l", "u", "c", "o", "s", "e", " ", "6", "0", " ", "(", "9", "9", " ", "-", " ", "7", "0", ")">>,
    <<"p", "o", "s", "t", "p", "r", "a", "n", "d", "i", "a", "l", " ", "g", "l", "u", "c", "o", "s", "e", " ", "1", "5", "0", " ", "7", "0", " ", "-", " ", "1", "4", "0">>,
    <<"g", "l", "u", "c", "o", "s", "e", " ", "7", "0", "-", "9", "9">>,
    <<"t", "3", " ", "9", "0", " ", "8", "0", " ", "-", " ", "2", "0", "0">>,
    <<"v", "i", "t", "a", "m", "i", "n", " ", "b", "1", "2">>,
    <<"g", "l", "u", "c", "o", "s", "e", "\n", "9", "9", " ", "7", "0", " ", "-", " ", "9", "9">>,
    <<" ", "\n">>,
    <<"h", "d", "l", " ", "5", ".", " ", "4", "0", ".", "5", "0", " ", "-", " ", "6", "0">>,
    <<"m", "c", "h", "c", " ", "3", "3">>,
    <<"g", "l", "u", "c", "o", "s", "e", " ", "9", "9", ".", "1">>
  }

AnalyzerTexts == {Concat(fs) : fs \in SeqsUpTo(Fragments, MaxFrags)} \cup SampleTexts

Tokens ==
  {
    <<"1">>, <<".">>, <<"2">>, <<",">>,
    <<"<">>, <<">">>, <<" ">>, <<"L", "a", "k", "h">>,
    <<"L", "a", "c">>, <<"m", "g">>
  }

NormalizerSamples ==
  {
    <<"1", ".", "2", ".", "3">>, <<"<", "1", "0">>,
    <<">", "5", ".", "5", " ", "m", "g", "/", "d", "L">>, <<"1", ".", "2", " ", "L", "a", "k", "h">>,
    <<"a", "b", "c">>, <<"1", "2", ",", "0", "0", "0">>,
    <<"a", " ", "1", ".", "2", ".", "3">>, <<"1", ".", "2", ".", "3", " ", "L", "a", "k", "h">>
  }

NormalizerInputs ==
  {Concat(ts) : ts \in SeqsUpTo(Tokens, MaxTokens)} \cup NormalizerSamples

(***************************************************************************)
(* extract_text_from_file(file_path, filename), one action per strategy.   *)
(***************************************************************************)
InitExtract ==
  /\ pc = "start"
  /\ filename \in Filenames
  /\ text = <<>>
  /\ all_tests_from_tables = <<>>
  /\ streamPos = 0
  /\ attempts = <<>>
  /\ result = <<>>
  /\ IdleAnalyze /\ IdleNormalize /\ IdleSummarize

\* where control goes after a try block: on, or out of the function with the
\* exception when no except clause catches it
After(strategy, failed, next) == IF failed /\ ~Caught(strategy) THEN "raised" ELSE next

\* line 100: if not text.strip()
NextAfterText(t) == IF Blank(t) THEN "table" ELSE "return"

\* fault: OCR run whatever the tables gave
AlwaysOcr(rows) == "ocr"

\* line 116: if not all_tests_from_tables ... else
NextAfterTables(rows) == IF rows = <<>> THEN "ocr" ELSE "return"

\* lines 90-100: the native text layer
PdfText ==
  /\ pc = "start"
  /\ IsPdf(filename)
  /\ \E open_raises \in BOOLEAN, pages \in SeqsUpTo(PageResults, MaxPages),
        p \in 0..StreamLen :
       LET out == NativeText(open_raises, pages) IN
         /\ text' = text \o out.text
         /\ attempts' = Append(attempts, [strategy |-> "native", pos |-> streamPos,
                                          failed |-> out.failed, out |-> out.text])
         /\ streamPos' = p
         /\ pc' = After("native", out.failed, NextAfterText(text'))
  /\ UNCHANGED <<filename, all_tests_from_tables, result>>
  /\ UNCHANGED <<analyzeVars, normalizeVars, summarizeVars>>

\* lines 100-116 and 130-132: camelot, then the rows flattened into text
PdfTables ==
  /\ pc = "table"
  /\ \E read_raises \in BOOLEAN,
        tables \in SeqsUpTo(SeqsUpTo(RowChoices, MaxTableRows), MaxTables),
        p \in 0..StreamLen :
       LET rows == IF read_raises THEN <<>> ELSE TableRows(Concat(tables)) IN
         /\ all_tests_from_tables' = rows
         /\ attempts' = Append(attempts, [strategy |-> "table", pos |-> streamPos,
                                          failed |-> read_raises, out |-> rows])
         /\ streamPos' = p
         /\ text' = IF NextAfterTables(rows) = "ocr" THEN text ELSE FlattenRows(rows)
         /\ pc' = After("table", read_raises, NextAfterTables(rows))
  /\ UNCHANGED <<filename, result>>
  /\ UNCHANGED <<analyzeVars, normalizeVars, summarizeVars>>

\* lines 116-129: seek(0), then the file opened as an image and read by OCR
PdfOcr ==
  /\ pc = "ocr"
  /\ \E open_raises \in BOOLEAN, ocr_raises \in BOOLEAN, ocr_text \in OcrTexts,
        p \in 0..StreamLen :
       LET failed == open_raises \/ ocr_raises IN
         /\ text' = IF failed THEN text ELSE ocr_text
         /\ attempts' = Append(attempts, [strategy |-> "ocr", pos |-> 0,
                                          failed |-> failed, out |-> ocr_text])
         /\ streamPos' = IF open_raises THEN 0 ELSE p
         /\ pc' = After("ocr", failed, "return")
  /\ UNCHANGED <<filename, all_tests_from_tables, result>>
  /\ UNCHANGED <<analyzeVars, normalizeVars, summarizeVars>>

\* lines 135-148: an image, enlarged when narrow, read by OCR
ImageOcr ==
  /\ pc = "start"
  /\ ~IsPdf(filename)
  /\ IsImage(filename)
  /\ \E open_raises \in BOOLEAN, w \in Widths, ocr_raises \in BOOLEAN,
        ocr_text \in OcrTexts, p \in 0..StreamLen :
       LET failed == open_raises \/ ocr_raises IN
         /\ text' = IF failed THEN <<>> ELSE ocr_text
         /\ attempts' = Append(attempts, [strategy |-> "image", pos |-> streamPos,
                                          failed |-> failed, out |-> ocr_text,
                                          resized |-> ~open_raises /\ NeedsResize(w)])
         /\ streamPos' = IF open_raises THEN streamPos ELSE p
         /\ pc' = After("image", failed, "return")
  /\ UNCHANGED <<filename, all_tests_from_tables, result>>
  /\ UNCHANGED <<analyzeVars, normalizeVars, summarizeVars>>

\* lines 149-151: any other filename
Unsupported ==
  /\ pc = "start"
  /\ ~IsPdf(filename)
  /\ ~IsImage(filename)
  /\ text' = <<>>
  /\ pc' = "return"
  /\ UNCHANGED <<filename, all_tests_from_tables, streamPos, attempts, result>>
  /\ UNCHANGED <<analyzeVars, normalizeVars, summarizeVars>>

\* line 153
Return ==
  /\ pc = "return"
  /\ result' = text
  /\ pc' = "done"
  /\ UNCHANGED <<filename, text, all_tests_from_tables, streamPos, attempts>>
  /\ UNCHANGED <<analyzeVars, normalizeVars, summarizeVars>>

NextExtract == PdfText \/ PdfTables \/ PdfOcr \/ ImageOcr \/ Unsupported \/ Return

SpecExtract == InitExtract /\ [][NextExtract]_vars

(***************************************************************************)
(* analyze_text_for_lab_values(text)                                       *)
(***************************************************************************)
InitAnalyze ==
  /\ pc = "start"
  /\ extracted_text \in AnalyzerTexts
  /\ results_df = <<>>
  /\ IdleExtract /\ IdleNormalize /\ IdleSummarize

Analyze ==
  /\ pc = "start"
  /\ results_df' = analyze_text_for_lab_values(extracted_text)
  /\ pc' = "done"
  /\ UNCHANGED <<extracted_text, extractVars, normalizeVars, summarizeVars>>

SpecAnalyze == InitAnalyze /\ [][Analyze]_vars

(***************************************************************************)
(* normalize_value(value)                                                  *)
(***************************************************************************)
InitNormalize ==
  /\ pc = "start"
  /\ value \in NormalizerInputs
  /\ normalized = None
  /\ IdleExtract /\ IdleAnalyze /\ IdleSummarize

Normalize ==
  /\ pc = "start"
  /\ normalized' = normalize_value(value)
  /\ pc' = "done"
  /\ UNCHANGED <<value, extractVars, analyzeVars, summarizeVars>>

SpecNormalize == InitNormalize /\ [][Normalize]_vars


(***************************************************************************)
(* summarize_results(df): df is a frame the analyzer could have built,     *)
(* each row a rule's record for some value against the rule's own range.   *)
(***************************************************************************)
SummaryValues ==
  {[m |-> 5, e |-> 0, int |-> FALSE], [m |-> 80, e |-> 0, int |-> FALSE],
   [m |-> 500, e |-> 0, int |-> FALSE]}

\* glucose, hemoglobin, t3
SummaryRules == {LAB_RULES[1], LAB_RULES[5], LAB_RULES[29]}

SummaryRows ==
  {MakeRecord(rule, v, Bounds(rule, <<>>)) : rule \in SummaryRules, v \in SummaryValues}

InitSummarize ==
  /\ pc = "start"
  /\ df \in SeqsUpTo(SummaryRows, MaxRows)
  /\ summary = <<>>
  /\ IdleExtract /\ IdleAnalyze /\ IdleNormalize

Summarize ==
  /\ pc = "start"
  /\ summary' = summarize_results(df)
  /\ pc' = "done"
  /\ UNCHANGED <<df, extractVars, analyzeVars, normalizeVars>>

SpecSummarize == InitSummarize /\ [][Summarize]_vars

\* the four calls, each on its own
Init == InitExtract \/ InitAnalyze \/ InitNormalize \/ InitSummarize

Next == NextExtract \/ Analyze \/ Normalize \/ Summarize

Spec == Init /\ [][Next]_vars

(***************************************************************************)
(* Properties of extract_text_from_file, under SpecExtract.                *)
(***************************************************************************)
Tried(strategy) == \E i \in DOMAIN attempts : attempts[i].strategy = strategy

AttemptOf(strategy) ==
  attempts[CHOOSE i \in DOMAIN attempts : attempts[i].strategy = strategy]

StrategiesTried == [i \in DOMAIN attempts |-> attempts[i].strategy]

IsPrefix(a, b) == Len(a) <= Len(b) /\ \A i \in DOMAIN a : a[i] = b[i]

PdfOrder == <<"native", "table", "ocr">>

\* a text with nothing but white space in it (the empty text too)
OnlyBlanks(t) == \A i \in DOMAIN t : t[i] \in {" ", "\n", "\t", "\r"}

\* C1 as stated: for a PDF the strategies run in the order native text, tables,
\* OCR; tables are tried only when the native text is empty, OCR only when the
\* tables gave no qualifying row, and the text returned is that of the first
\* strategy whose output was not empty.
C1_StopsAtFirstNonEmpty ==
  IsPdf(filename) =>
    /\ IsPrefix(StrategiesTried, PdfOrder)
    /\ Tried("table") => AttemptOf("native").out = <<>>
    /\ Tried("ocr") => Tried("table") /\ AttemptOf("table").out = <<>>
    /\ (pc = "done" /\ AttemptOf("native").out # <<>>) =>
         result = AttemptOf("native").out

\* C1, amended: for a PDF the strategies run in the order native text, tables,
\* OCR; tables are tried only when the native text is empty or all white
\* space, OCR only when the tables gave no qualifying row, and the text
\* returned is that of the first strategy that yielded content: the native
\* text when it is not blank, else the flattened rows when a row qualified,
\* else what OCR read when OCR did not fail.
C1_StopsAtFirstContent ==
  IsPdf(filename) =>
    /\ IsPrefix(StrategiesTried, PdfOrder)
    /\ Tried("table") => OnlyBlanks(AttemptOf("native").out)
    /\ Tried("ocr") => Tried("table") /\ AttemptOf("table").out = <<>>
    /\ pc = "done" =>
         /\ ~OnlyBlanks(AttemptOf("native").out) =>
              ~Tried("table") /\ result = AttemptOf("native").out
         /\ (Tried("table") /\ AttemptOf("table").out # <<>>) =>
              ~Tried("ocr") /\ result = FlattenRows(AttemptOf("table").out)
         /\ (Tried("ocr") /\ ~AttemptOf("ocr").failed) =>
              result = AttemptOf("ocr").out

\* a PDF whose text layer is white space and whose tables have no qualifying
\* row: OCR was reached and its text returned
C1_Witness ==
  /\ pc = "done"
  /\ StrategiesTried = PdfOrder
  /\ AttemptOf("native").out = <<" ", "\n">>
  /\ ~AttemptOf("ocr").failed
  /\ result = <<"l", "d", "l", " ", "7">>

\* C2: no call raises to its caller: whatever kind the file is and whichever
\* strategies fail, control stays in the function after each failure and the
\* call ends returning the text it holds.
C2_NeverRaises ==
  /\ pc \in {"start", "table", "ocr", "return", "done"}
  /\ \A i \in DOMAIN attempts :
       attempts[i].failed => pc \in {"table", "ocr", "return", "done"}
  /\ pc = "done" => result = text

\* a PDF on which the text layer, camelot and OCR all raised, and the call
\* returned
C2_Witness ==
  /\ pc = "done"
  /\ StrategiesTried = PdfOrder
  /\ \A i \in DOMAIN attempts : attempts[i].failed

\* C3: the call returns the empty string when no strategy produced content: a
\* PDF with no non-blank native text, no qualifying row and a failed OCR; an
\* image whose OCR failed; a filename of no supported kind, for which no
\* strategy is run.
C3_EmptyWhenNothingProduced ==
  pc = "done" =>
    /\ ( /\ StrategiesTried = PdfOrder
         /\ OnlyBlanks(AttemptOf("native").out)
         /\ AttemptOf("table").out = <<>>
         /\ AttemptOf("ocr").failed ) => result = <<>>
    /\ (Tried("image") /\ AttemptOf("image").failed) => result = <<>>
    /\ (~IsPdf(filename) /\ ~IsImage(filename)) => attempts = <<>> /\ result = <<>>

\* C10: every strategy that reads a PDF's stream after the text layer did
\* starts at position 0: the tables and OCR both.
C10_EveryStrategyReadsFromStart ==
  \A i \in DOMAIN attempts :
    attempts[i].strategy \in {"table", "ocr"} => attempts[i].pos = 0

(***************************************************************************)
(* Properties of analyze_text_for_lab_values, under SpecAnalyze.           *)
(***************************************************************************)
text_low == Lower(extracted_text)

\* the rule a row was made for
RuleOf(row) ==
  CHOOSE k \in DOMAIN LAB_RULES : Upper(LAB_RULES[k].test) = row.Test

\* the word a row's status starts with
WordOf(row) ==
  IF StartsWith(row.Status, <<"L", "O", "W", " ", "(">>) THEN "Low"
  ELSE IF StartsWith(row.Status, <<"H", "I", "G", "H", " ", "(">>) THEN "High"
  ELSE IF StartsWith(row.Status, <<"N", "o", "r", "m", "a", "l", " ", "(">>) THEN "Normal"
  ELSE "?"

NumEq(a, b) == ~Less(a, b) /\ ~Less(b, a)

Num(n) == [m |-> n, e |-> 0, int |-> TRUE]

Tenths(n) == [m |-> n, e |-> 1, int |-> FALSE]

\* the bounds the code classifies a row's value against
EffectiveBounds(row) == Bounds(LAB_RULES[RuleOf(row)], text_low)

ExampleText == <<"G", "l", "u", "c", "o", "s", "e", ":", " ", "1", "1", "0", " ", "m", "g", "/", "d", "L", " ", "(", "7", "0", "-", "9", "9", ")", "\n", "H", "e", "m", "o", "g", "l", "o", "b", "i", "n", " ", "1", "1", " ", "g", "/", "d", "L">>

\* Low, High or Normal, of a value against two bounds
Classify(v, low, high) ==
  IF Less(v, low) THEN "Low" ELSE IF Less(high, v) THEN "High" ELSE "Normal"

RangeText(low, high, unit) == low \o <<" ", "-", " ">> \o high \o <<" ">> \o unit

\* a row agrees with the range search: the two numbers found are its bounds,
\* rendered by Render, or the rule's own bounds when none is found
RangeFollowed(row, Render(_, _)) ==
  LET rule == LAB_RULES[RuleOf(row)]
      m == ReSearch(RangePattern(rule.test), text_low)
  IN IF m.ok
       THEN LET g1 == Group(text_low, m, 1)
                g2 == Group(text_low, m, 2)
            IN /\ row.Range = RangeText(Render(g1, Float(g1).val), Render(g2, Float(g2).val),
                                        rule.unit)
               /\ WordOf(row) = Classify(row.Value, Float(g1).val, Float(g2).val)
       ELSE /\ row.Range = RangeText(PyStr(rule.low), PyStr(rule.high), rule.unit)
            /\ WordOf(row) = Classify(row.Value, rule.low, rule.high)

AsWritten(token, number) == token

AsFloat(token, number) == PyStr(number)

\* the rows of the example: test, value, range text, status
ExampleRows(glucose_range) ==
  /\ Len(results_df) = 2
  /\ results_df[1].Test = <<"G", "L", "U", "C", "O", "S", "E">>
  /\ NumEq(results_df[1].Value, Num(110))
  /\ results_df[1].Range = glucose_range
  /\ WordOf(results_df[1]) = "High"
  /\ results_df[2].Test = <<"H", "E", "M", "O", "G", "L", "O", "B", "I", "N">>
  /\ NumEq(results_df[2].Value, Num(11))
  /\ results_df[2].Range = <<"1", "2", " ", "-", " ", "1", "6", ".", "5", " ", "g", "/", "d", "L">>
  /\ WordOf(results_df[2]) = "Low"

\* C5 as stated: a range found after the test name gives the bounds and the
\* range text "<low> - <high> <unit>", the rule's own bounds are used when none
\* is found, and the example text gives GLUCOSE 110 "70 - 99 mg/dL" HIGH and
\* HEMOGLOBIN 11 "12 - 16.5 g/dL" LOW.
C5_RangeFromTextOrRule ==
  pc = "done" =>
    /\ \A i \in DOMAIN results_df : RangeFollowed(results_df[i], AsWritten)
    /\ extracted_text = ExampleText => ExampleRows(<<"7", "0", " ", "-", " ", "9", "9", " ", "m", "g", "/", "d", "L">>)

\* C5, amended: a range found by the range search (after the test name and a
\* first number, on the name's line) gives the bounds and the range text
\* "<low> - <high> <unit>" with both numbers rendered as Python floats; the
\* rule's own bounds, rendered as the rule table writes them, are used when
\* none is found; the example text gives GLUCOSE 110 "70.0 - 99.0 mg/dL" HIGH
\* and HEMOGLOBIN 11 "12 - 16.5 g/dL" LOW.
C5_RangeFromTextAsFloats ==
  pc = "done" =>
    /\ \A i \in DOMAIN results_df : RangeFollowed(results_df[i], AsFloat)
    /\ extracted_text = ExampleText => ExampleRows(<<"7", "0", ".", "0", " ", "-", " ", "9", "9", ".", "0", " ", "m", "g", "/", "d", "L">>)

\* the example text analyzed: one row with a range from the text, one without
C5_Witness ==
  /\ pc = "done"
  /\ extracted_text = ExampleText
  /\ Len(results_df) = 2
  /\ ReSearch(RangePattern(LAB_RULES[1].test), text_low).ok
  /\ ~ReSearch(RangePattern(LAB_RULES[5].test), text_low).ok

\* a digit stands at or after position p of s
DigitFrom(s, p) == \E q \in p..Len(s) : s[q] \in Digits

\* where name occurs in s with a digit somewhere after it
PairsOf(name, s) ==
  {p \in 1..Len(s) : StartsWithAt(s, name, p) /\ DigitFrom(s, p + Len(name))}

Least(S) == CHOOSE x \in S : \A y \in S : x <= y

\* the first position from p on that holds no digit
EndOfDigits(s, p) == Least({q \in p..(Len(s) + 1) : q > Len(s) \/ s[q] \notin Digits})

\* the number that starts at the digit at d: digits, a point, digits
NumberAt(s, d) ==
  LET e1 == EndOfDigits(s, d)
      e2 == IF e1 <= Len(s) /\ s[e1] = "." THEN EndOfDigits(s, e1 + 1) ELSE e1
  IN Float(SubSeq(s, d, e2 - 1)).val

\* the first number after the first occurrence of name that has one
FirstValue(name, s) ==
  LET p == Least(PairsOf(name, s))
      d == Least({q \in (p + Len(name))..Len(s) : s[q] \in Digits})
  IN NumberAt(s, d)

\* C6: the result has at most one row for a rule, the rows stand in the order
\* of the rule table wherever the names are in the text, and a row's value is
\* the one at the first occurrence of the name followed by a number.
C6_OneRowPerRuleInTableOrder ==
  pc = "done" =>
    /\ \A i, j \in DOMAIN results_df :
         i < j => RuleOf(results_df[i]) < RuleOf(results_df[j])
    /\ \A i \in DOMAIN results_df :
         results_df[i].Value =
           FirstValue(LAB_RULES[RuleOf(results_df[i])].test, text_low)

\* hdl before glucose in the text and mentioned twice: glucose's row first,
\* hdl's row with its first value
C6_Witness ==
  /\ pc = "done"
  /\ extracted_text = <<"h", "d", "l", " ", "5", " ", "g", "l", "u", "c", "o", "s", "e", " ", "7", " ", "h", "d", "l", " ", "9">>
  /\ Len(results_df) = 2
  /\ results_df[1].Test = <<"G", "L", "U", "C", "O", "S", "E">>
  /\ results_df[2].Test = <<"H", "D", "L">>
  /\ NumEq(results_df[2].Value, Num(5))

HasRow(k) == \E i \in DOMAIN results_df : results_df[i].Test = Upper(LAB_RULES[k].test)

\* C9: a rule has a row exactly when its name occurs in the text with a number
\* after it; a name with no number after it gives no row and stops neither
\* the call nor the scan of the rules after it.
C9_RowOnlyWhenNumberFollows ==
  pc = "done" =>
    \A k \in DOMAIN LAB_RULES :
      HasRow(k) <=> PairsOf(LAB_RULES[k].test, text_low) # {}

\* glucose named with no number after it: no row for it, a row for hdl, a
\* later rule
C9_Witness ==
  /\ pc = "done"
  /\ Contains(text_low, LAB_RULES[1].test)
  /\ ~HasRow(1)
  /\ HasRow(16)

(***************************************************************************)
(* Properties of summarize_results, under SpecSummarize.                   *)
(***************************************************************************)
\* the line of a row that is not Normal
LineOf(row) ==
  (IF WordOf(row) = "High" THEN <<"H", "i", "g", "h">> ELSE <<"L", "o", "w">>)
    \o <<" ">> \o row.Test \o <<" ", "→", " ", row.Meaning>>

\* the lines of the rows that are not Normal, each after "\n- "
RECURSIVE LinesOf(_)
LinesOf(rows) ==
  IF rows = <<>> THEN <<>>
  ELSE (IF WordOf(Head(rows)) \in {"Low", "High"}
          THEN <<"\n", "-", " ">> \o LineOf(Head(rows)) ELSE <<>>)
         \o LinesOf(Tail(rows))

\* C7: an empty result gives the "no recognized tests" message; a result of
\* Normal rows only, however many, the "within expected ranges" message; any
\* other the "abnormal findings" header and one line "<High|Low> <TEST> ->
\* <meaning>" for each Low or High row, in the result's order, none for a
\* Normal row.
C7_OneOfThreeOutputs ==
  pc = "done" =>
    summary =
      IF df = <<>> THEN <<"No recognized tests found in this report.">>
      ELSE IF \A i \in DOMAIN df : WordOf(df[i]) = "Normal"
        THEN <<"All analyzed values appear within expected ranges.">>
      ELSE <<"Abnormal findings detected:">> \o LinesOf(df)

\* a Normal row and a Low row after it: the header and the Low row's line
C7_Witness ==
  /\ pc = "done"
  /\ Len(df) = 2
  /\ WordOf(df[1]) = "Normal"
  /\ WordOf(df[2]) = "Low"
  /\ summary = <<"Abnormal findings detected:", "\n", "-", " ">> \o LineOf(df[2])

(***************************************************************************)
(* Properties of normalize_value, under SpecNormalize.                     *)
(***************************************************************************)
\* a number written with more than one decimal point
HasManyPoints(v) ==
  \E i, j \in DOMAIN v :
    /\ i < j /\ v[i] = "." /\ v[j] = "."
    /\ \A k \in i..j : v[k] \in Digits \cup {"."}
    /\ \E k \in DOMAIN v :
         /\ v[k] \in Digits
         /\ \A l \in (IF k < i THEN k ELSE i)..(IF k > j THEN k ELSE j) :
              v[l] \in Digits \cup {"."}

HasNoDigit(v) == \A i \in DOMAIN v : v[i] \notin Digits

\* C8: the call returns None for every malformed number: a number with more
\* than one decimal point, the empty string, a string with no number in it.
C8_MalformedGivesNone ==
  (pc = "done" /\ (value = <<>> \/ HasNoDigit(value) \/ HasManyPoints(value)))
    => normalized = None

=============================================================================
